---- MODULE Spec2Model ----
(***************************************************************************)
(* A model of the MLM core microkernel (src/mlm-core.js).                  *)
(*                                                                         *)
(* Two iterations of the kernel live in src/mlm-core.js and both are       *)
(* modelled; the variable `variant` says which one an instance runs:       *)
(*   "units"   - lines 1-365: install(name), start(config), stop(), with   *)
(*               info.requires / info.provides, injectors, layers and the  *)
(*               #installing reentrancy set;                               *)
(*   "modules" - lines 367-577: install(name), start(...names), stop(),    *)
(*               with config.requires / config.implements and loaders.     *)
(*                                                                         *)
(* Every async function is cut at its awaits: one action is one piece of   *)
(* code between two suspension points.  The importer, the factories, the   *)
(* hooks and the processors are the environment: what a unit declares is   *)
(* fixed by `world`, whether a callback throws is chosen when it is called.*)
(***************************************************************************)
EXTENDS Integers, Sequences, FiniteSets, TLC

\* ------------------------------------------------------------------ bounds
\* units a caller asks for in one run: install(name) calls that are
\* accepted and names passed to accepted start(...names) calls
MaxInstalls == 3
\* public calls that are rejected by a state check in one run
MaxRejected == 1
\* public start() calls that are accepted in one run
MaxStarts == 1
\* own keys of a factory result handed to undot
MaxKeys == 3

\* ------------------------------------------------------------- vocabulary
UnitNames == {"a", "b", "c", "#t"}
\* the keys of the units table: unit names and feature tags
TableKeys == UnitNames \cup {"#t", "#u"}
CtxKeys == {"k", "j", "s"}
NoUnit == ""
Core == [unit |-> "core", layer |-> 0]
NoVal == [unit |-> "", layer |-> 0]
NoErr == [kind |-> "", unit |-> "", key |-> "", owner |-> "", wraps |-> 0]

\* mutant: no requires entry is taken for a tag reference
NeverHash(s) == FALSE
\* dep.startsWith('#')                                   (mlm-core.js:221)
StartsWithHash(s) == s \in {"#t", "#u"}
\* tag.match(/^#[\w-]+$/)                                (mlm-core.js:228)
MatchesTag(s) == s \in {"#t", "#u"}

\* An error value: what failed (kind), the unit whose context raised it (unit,
\* "" for the kernel's own assert), the key, tag or callback it is about, the
\* owner the message names, and how often ctx.throw re-raised it (wraps).
Err(kind, unit, key) ==
  [kind |-> kind, unit |-> unit, key |-> key, owner |-> "", wraps |-> 0]
\* One entry of the observation log: a callback the kernel invoked.
Ev(ev, unit, layer, key, by) ==
  [ev |-> ev, unit |-> unit, layer |-> layer, key |-> key, by |-> by]

\* --------------------------------------------------- values of a config
\* A JavaScript value as undot sees it: a leaf (function, number, ...), a
\* plain object (its entries in insertion order) or an object that is not
\* plain (array, class instance).
Leaf(v) == [t |-> "leaf", v |-> v, e |-> <<>>]
Inst(v) == [t |-> "inst", v |-> v, e |-> <<>>]
Obj(entries) == [t |-> "obj", v |-> "", e |-> entries]
\* one own property: key and value
Prop(k, val) == [k |-> k, val |-> val]
\* undot has not run
NotRun == Leaf("")

\* analyze() has not been called
NoAnalysis ==
  [status |-> "idle", name |-> "", stack |-> <<>>, visited |-> {}, installing |-> {},
   units |-> <<>>, tags |-> {}, errors |-> <<>>, order |-> <<>>, success |-> TRUE]

\* a key of a factory result as k.split('.') reads it, with its value
Dotted(parts, val) == [parts |-> parts, val |-> val]
\* reading a property that is not there
Undefined == [t |-> "undef", v |-> "", e |-> <<>>]

\* ------------------------------------------------------- unit descriptions
\* One configuration layer: what a factory (or an injector) returns, after
\* undot.  define: the context keys it publishes, in declaration order;
\* frags: the other top-level fragment keys it carries; register: the
\* pipeline names it registers a processor for; hooks: the hooks it has.
Layer(def, frags, reg, hooks) ==
  [define |-> def, frags |-> frags, register |-> reg, hooks |-> hooks]
NoLayer == Layer(<<>>, {}, <<>>, {})
InstallHooks == {"onBeforeLoad", "onPrepare", "onReady"}
RunHooks == {"onStart", "onStop", "onShutdown"}
AllHooks == InstallHooks \cup RunHooks

\* A unit as the importer delivers it: info.requires, info.provides (or the
\* config's requires / implements in the modules variant), the injectors it
\* declares (key and the layer the injector returns) and its own layer.
Unit(req, prov, inj, cfg) ==
  [exists |-> TRUE, badShape |-> FALSE, requires |-> req, provides |-> prov,
   inject |-> inj, cfg |-> cfg]
\* a unit whose config has a field of the wrong type
BadUnit == [Unit(<<>>, <<>>, <<>>, NoLayer) EXCEPT !.badShape = TRUE]
\* a name the importer cannot import
Missing == [Unit(<<>>, <<>>, <<>>, NoLayer) EXCEPT !.exists = FALSE]
Injector(key, out) == [key |-> key, out |-> out]

\* dependency chain with a diamond: c is reached through a and through b
WorldDeps ==
  [roots |-> {"a", "c"},
   starts |-> {<<>>, <<"a">>, <<"c", "a">>, <<"a", "a">>},
   units |-> [n \in UnitNames |->
     CASE n = "a" -> Unit(<<"b", "c">>, <<>>, <<>>, Layer(<<"k">>, {}, <<>>, AllHooks))
       [] n = "b" -> Unit(<<"c">>, <<>>, <<>>, Layer(<<"j">>, {}, <<>>, {"onReady", "onStart", "onShutdown"}))
       [] n = "c" -> Unit(<<>>, <<>>, <<>>, Layer(<<"s">>, {}, <<>>, {"onPrepare", "onStop", "onShutdown"}))
       [] OTHER -> Missing]]

\* a two-unit cycle and a unit that requires itself
WorldCycle ==
  [roots |-> {"a", "c"},
   starts |-> {<<>>, <<"a">>, <<"c", "a">>},
   units |-> [n \in UnitNames |->
     CASE n = "a" -> Unit(<<"b">>, <<>>, <<>>, Layer(<<"k">>, {}, <<>>, {"onReady", "onStart"}))
       [] n = "b" -> Unit(<<"a">>, <<>>, <<>>, Layer(<<>>, {}, <<>>, {"onPrepare", "onReady", "onStart"}))
       [] n = "c" -> Unit(<<"c">>, <<>>, <<>>, Layer(<<>>, {}, <<>>, {"onReady"}))
       [] OTHER -> Missing]]

\* two owners for one tag, two definers for one context key
WorldDup ==
  [roots |-> {"a", "b", "c"},
   starts |-> {<<>>, <<"a", "b">>, <<"b", "a">>, <<"c">>, <<"a", "a">>},
   units |-> [n \in UnitNames |->
     CASE n = "a" -> Unit(<<>>, <<"#u">>, <<>>, Layer(<<"k">>, {}, <<>>, {"onShutdown"}))
       [] n = "b" -> Unit(<<>>, <<"#u">>, <<>>, Layer(<<"j">>, {}, <<>>, {"onShutdown"}))
       [] n = "c" -> Unit(<<"a">>, <<>>, <<>>, Layer(<<"s", "k">>, {}, <<>>, {}))
       [] OTHER -> Missing]]

\* tag requirements: a unit named like the tag, and an ordinary provider
WorldTags ==
  [roots |-> {"a", "c", "#t"},
   starts |-> {<<>>, <<"a">>, <<"b", "a">>, <<"b", "#t">>, <<"#t", "b">>},
   units |-> [n \in UnitNames |->
     CASE n = "a" -> Unit(<<"#t">>, <<>>, <<>>, Layer(<<"k">>, {}, <<>>, {"onReady"}))
       [] n = "b" -> Unit(<<>>, <<"#t">>, <<>>, Layer(<<"s">>, {}, <<>>, {"onBeforeLoad", "onPrepare"}))
       [] n = "c" -> Unit(<<"b", "#t">>, <<>>, <<>>, Layer(<<>>, {}, <<>>, {"onStart"}))
       [] OTHER -> Unit(<<>>, <<"#t">>, <<>>, Layer(<<"j">>, {}, <<>>, {}))]]

\* an injector that adds a layer to every unit carrying a "svc" fragment;
\* c declares the injector key again, "#t" defines the key the layer defines
SvcLayer == Layer(<<"s">>, {"p"}, <<"p">>, {"onReady", "onStart", "onStop", "onShutdown"})
WorldLayers ==
  [roots |-> {"b", "c", "#t"},
   starts |-> {<<>>, <<"b">>, <<"b", "c">>},
   units |-> [n \in UnitNames |->
     CASE n = "a" -> Unit(<<>>, <<>>, <<Injector("svc", SvcLayer)>>,
                          Layer(<<>>, {}, <<"p">>, {"onStart", "onShutdown"}))
       [] n = "b" -> Unit(<<"a">>, <<>>, <<>>,
                          Layer(<<"k">>, {"svc", "p"}, <<>>, {"onReady", "onStart", "onStop", "onShutdown"}))
       [] n = "c" -> Unit(<<"a">>, <<>>, <<Injector("svc", NoLayer)>>,
                          Layer(<<"s">>, {"svc"}, <<>>, {"onShutdown"}))
       [] OTHER -> Unit(<<"a">>, <<>>, <<>>, Layer(<<"s">>, {"svc"}, <<>>, {}))]]

\* pipelines: fragments installed before and after the processors
WorldPipes ==
  [roots |-> {"a", "c"},
   starts |-> {<<>>, <<"a", "c">>, <<"c", "a">>},
   units |-> [n \in UnitNames |->
     CASE n = "a" -> Unit(<<>>, <<>>, <<>>, Layer(<<>>, {"p"}, <<>>, {"onStop"}))
       [] n = "b" -> Unit(<<>>, <<>>, <<>>, Layer(<<>>, {"p"}, <<"p">>, {}))
       [] n = "c" -> Unit(<<"b">>, <<>>, <<>>, Layer(<<>>, {"p", "q"}, <<"p", "q">>, {"onStop"}))
       [] OTHER -> Missing]]

\* units that fail on their own: wrong shape, malformed tag, unknown tag
WorldBroken ==
  [roots |-> {"a", "b", "c", "#t"},
   starts |-> {<<>>, <<"a">>, <<"b", "c">>, <<"#t">>},
   units |-> [n \in UnitNames |->
     CASE n = "a" -> BadUnit
       [] n = "b" -> Unit(<<>>, <<"#t", "bad">>, <<>>, Layer(<<>>, {}, <<>>, {}))
       [] n = "c" -> Unit(<<"a", "#t">>, <<>>, <<>>, Layer(<<>>, {}, <<>>, {}))
       [] OTHER -> Missing]]

Worlds == {WorldDeps, WorldCycle, WorldDup, WorldTags, WorldLayers, WorldPipes, WorldBroken}
Variants == {"units", "modules"}

\* ------------------------------------------------------------------ state
VARIABLES
  variant,              \* which iteration of the kernel this instance runs
  world,                \* what the importer knows (fixed)
  state,                \* #state
  units,                \* units / modules: key -> the unit stored under it
  context,              \* #context: key -> who published it
  registeredLoaders,    \* #registeredLoaders / #loaders, in key order
  registeredInjectors,  \* #registeredInjectors, in key order
  onStart,              \* #onStart / #start
  onStop,               \* #onStop / #stop
  onShutdown,           \* #onShutdown / #teardown
  installing,           \* #installing
  stack,                \* the #install recursion: one frame per unit
  calls,                \* the public calls accepted so far and how they settled
  refused,              \* the public calls refused by a state check, in order
  runner,               \* the call whose body is executing (0: none)
  pos,                  \* the next queue position of a running drain
  log,                  \* the callbacks invoked so far, in order
  analysis,             \* the analyze() call in flight: its locals and result
  config,               \* a factory result handed to undot
  undotted              \* what undot returned for it

\* what no step of the installer or of a drain touches: the environment and
\* the two computations that live beside the controller (analyze, undot)
env == <<variant, world, analysis, config, undotted>>
tabs == <<units, context, registeredLoaders, registeredInjectors>>
queues == <<onStart, onStop, onShutdown>>
vars == <<variant, world, state, units, context, registeredLoaders,
          registeredInjectors, onStart, onStop, onShutdown, installing,
          stack, calls, refused, runner, pos, log, analysis, config, undotted>>

\* ------------------------------------------------------- pure helpers
RECURSIVE SeqConcat(_)
SeqConcat(ss) == IF ss = <<>> THEN <<>> ELSE Head(ss) \o SeqConcat(Tail(ss))

Count(seq, P(_)) == Cardinality({i \in 1..Len(seq) : P(seq[i])})

\* mutant: the idle check also lets a call through while installing
IdleOrInstalling(s) == s \in {"idle", "installing"}
\* mutant: the idle check also lets a call through once started
IdleOrStarted(s) == s \in {"idle", "started"}
\* this.assert(this.#state == 'idle', 'Busy.')
Idle(s) == s = "idle"
\* mutant: stop() is let in while start() is still, or for ever, starting
StartedOrStarting(s) == s \in {"started", "starting"}
\* this.assert(this.#state == 'started', 'Not started.')
Started(s) == s = "started"
\* the state between the two drains of stop()
ShutdownState(v) == IF v = "units" THEN "shutdown" ELSE "teardown"

\* mutant: the already-installed check is missing
NeverInstalled(tbl, name) == FALSE
\* if (this.units[name]) return; // already installed
AlreadyInstalled(tbl, name) == tbl[name] # NoUnit

\* How #install(name) begins: it returns at once, throws the reentrancy
\* error, or goes on to import the unit.  The modules variant has no guard.
InstallEntry(v, tbl, inst, name) ==
  IF AlreadyInstalled(tbl, name) THEN "return"
  ELSE IF v = "units" /\ name \in inst THEN "throw"
  ELSE "enter"

\* mutant: both variants rethrow the error as it is
Rethrown(v, e, depth) == e
\* catch (err) { throw err; } / catch (err) { ctx.throw(err); }, once per
\* frame the error passes through.  ctx.throw raises a new error built from
\* its argument, so the modules variant re-wraps at every level.
Propagate(v, e, depth) ==
  IF v = "modules" THEN [e EXCEPT !.wraps = @ + depth] ELSE e

\* mutant: the duplicate-tag error names no owner
DuplicateTagUnnamed(v, name, tag, owner) == Err("DuplicateTag", name, tag)
\* `Feature tag ${tag} already included by unit ${this.units[tag]?.name}` /
\* `Implementation tag ${imp} already exists`
DuplicateTag(v, name, tag, owner) ==
  [Err("DuplicateTag", name, tag) EXCEPT !.owner = IF v = "units" THEN owner ELSE ""]

\* mutant: a provides loop that fails registers none of its tags
RegisterTagsAtomic(v, tbl, name, tags) ==
  LET bad == {i \in 1..Len(tags) :
                \/ ~MatchesTag(tags[i])
                \/ tbl[tags[i]] # NoUnit
                \/ \E j \in 1..(i - 1) : tags[j] = tags[i]}
  IN  IF bad = {}
      THEN [tbl |-> [k \in DOMAIN tbl |->
                      IF \E i \in 1..Len(tags) : tags[i] = k THEN name ELSE tbl[k]],
            err |-> NoErr]
      ELSE LET tag == tags[CHOOSE i \in bad : \A j \in bad : i <= j] IN
           [tbl |-> tbl,
            err |-> IF ~MatchesTag(tag) THEN Err("InvalidTag", name, tag)
                    ELSE DuplicateTag(v, name, tag, IF tbl[tag] # NoUnit THEN tbl[tag] ELSE name)]

\* The provides / implements loop: validates and registers the tags in order
\* and stops at the first that fails; the earlier ones stay registered.
RECURSIVE RegisterTags(_, _, _, _)
RegisterTags(v, tbl, name, tags) ==
  IF tags = <<>> THEN [tbl |-> tbl, err |-> NoErr]
  ELSE LET tag == Head(tags) IN
    IF ~MatchesTag(tag) THEN [tbl |-> tbl, err |-> Err("InvalidTag", name, tag)]
    ELSE IF tbl[tag] # NoUnit
      THEN [tbl |-> tbl, err |-> DuplicateTag(v, name, tag, tbl[tag])]
    ELSE RegisterTags(v, [tbl EXCEPT ![tag] = name], name, Tail(tags))

\* for (const key in unit.inject): assert the key is new, then record it
RECURSIVE RegisterInjectors(_, _, _)
RegisterInjectors(ri, inj, owner) ==
  IF inj = <<>> THEN [ri |-> ri, err |-> NoErr]
  ELSE LET e == Head(inj) IN
    IF \E i \in 1..Len(ri) : ri[i].key = e.key
      THEN [ri |-> ri, err |-> Err("DuplicateInjector", owner, e.key)]
    ELSE RegisterInjectors(Append(ri, [key |-> e.key, owner |-> owner, out |-> e.out]),
                           Tail(inj), owner)

\* conf[key] is truthy
HasFrag(layer, key) ==
  IF key = "define" THEN layer.define # <<>> ELSE key \in layer.frags

\* mutant: a processor registered under an existing name replaces the list
AddLoaderReplacing(rl, key, reg) ==
  IF \E i \in 1..Len(rl) : rl[i].key = key
  THEN [i \in 1..Len(rl) |->
          IF rl[i].key = key THEN [rl[i] EXCEPT !.procs = <<reg>>] ELSE rl[i]]
  ELSE Append(rl, [key |-> key, procs |-> <<reg>>])

\* #addLoader: this.#registeredLoaders[name] ??= []; ...push(loader)
AddLoader(rl, key, reg) ==
  IF \E i \in 1..Len(rl) : rl[i].key = key
  THEN [i \in 1..Len(rl) |->
          IF rl[i].key = key THEN [rl[i] EXCEPT !.procs = Append(@, reg)] ELSE rl[i]]
  ELSE Append(rl, [key |-> key, procs |-> <<reg>>])

RECURSIVE AddLoaders(_, _, _)
AddLoaders(rl, keys, reg) ==
  IF keys = <<>> THEN rl
  ELSE AddLoaders(AddLoader(rl, Head(keys), reg), Tail(keys), reg)

\* for (const conf of layers) for (const key in conf.register) addLoader(..)
RECURSIVE RegisterLayers(_, _, _, _)
RegisterLayers(rl, layers, li, name) ==
  IF li > Len(layers) THEN rl
  ELSE RegisterLayers(AddLoaders(rl, layers[li].register, [unit |-> name, layer |-> li]),
                      layers, li + 1, name)

\* One pending processor invocation.  The built-in 'define' loader awaits
\* once per key of the fragment, so it is one item per key.
Item(pipe, li, reg, key) == [pipe |-> pipe, layer |-> li, reg |-> reg, key |-> key]
DefineItems(layer, li) ==
  [i \in 1..Len(layer.define) |-> Item("define", li, Core, layer.define[i])]

\* The loader pass: for key in registered loaders, for conf of layers,
\* if conf[key], for loader of the loaders of key.
LoaderWork(rl, layers) ==
  SeqConcat([ki \in 1..Len(rl) |->
    SeqConcat([li \in 1..Len(layers) |->
      IF HasFrag(layers[li], rl[ki].key)
      THEN SeqConcat([pi \in 1..Len(rl[ki].procs) |->
             IF rl[ki].procs[pi] = Core
             THEN DefineItems(layers[li], li)
             ELSE <<Item(rl[ki].key, li, rl[ki].procs[pi], "")>>])
      ELSE <<>>])])

\* layers.map(layer => layer[hook]).filter(Boolean), as callback ids
RECURSIVE HookSeq(_, _, _, _)
HookSeq(layers, li, name, hook) ==
  IF li > Len(layers) THEN <<>>
  ELSE (IF hook \in layers[li].hooks THEN <<[unit |-> name, layer |-> li]>> ELSE <<>>)
       \o HookSeq(layers, li + 1, name, hook)

\* mutant: the start and stop callbacks are put in front of the queue
Prepended(queue, cbs) == cbs \o queue
\* #onStart.push(...cbs), #onStop.push(...cbs)
Push(queue, cbs) == queue \o cbs
\* mutant: the shutdown callbacks are appended like the others
Appended(queue, cbs) == queue \o cbs
\* mutant: the shutdown callbacks are put in front one by one
UnshiftEach(queue, cbs) == [i \in 1..Len(cbs) |-> cbs[Len(cbs) + 1 - i]] \o queue
\* #onShutdown.unshift(...cbs)
Unshift(queue, cbs) == cbs \o queue

\* log entries: these callbacks were handed to a queue, in this order
Queued(cbs, hook) ==
  [i \in 1..Len(cbs) |-> Ev("queued", cbs[i].unit, cbs[i].layer, hook, NoVal)]

\* A frame of the #install recursion.
Frame(name, pc) == [name |-> name, pc |-> pc, idx |-> 1, layers |-> <<>>, todo |-> <<>>]
FrameNames(st) == {st[i].name : i \in 1..Len(st)}

\* mutant: the context store is never seen to hold a key
NeverDefined(ctx, key) == FALSE
\* Object.hasOwn(this.#context, name)
Defined(ctx, key) == ctx[key] # NoVal

\* --------------------------------------------------------- public calls
\* An accepted call: its arguments, whether it is pending, resolved or
\* rejected, the error it rejected with, and (start(...names)) the names
\* still to be installed.
Call(op, arg, status, err) ==
  [op |-> op, arg |-> arg, status |-> status, err |-> err,
   rest |-> IF arg = <<>> THEN <<>> ELSE Tail(arg)]
\* A call that failed its state check.  It rejects before it reads its
\* arguments, so only the operation and the error are recorded.
Refused(op, kind) == [op |-> op, err |-> Err(kind, "", "")]
IsInstall(c) == c.op = "install"
IsStart(c) == c.op = "start"

\* what a caller may pass to start: a config (not modelled) or names
StartArgs == IF variant = "units" THEN {<<>>} ELSE world.starts

\* the controller as its constructor leaves it
Constructed ==
  /\ variant \in Variants
  /\ world \in Worlds
  /\ state = "idle"
  /\ units = [k \in TableKeys |-> NoUnit]
  /\ context = [k \in CtxKeys |-> NoVal]
  /\ registeredLoaders =
       IF variant = "units" THEN <<[key |-> "define", procs |-> <<Core>>]>> ELSE <<>>
  /\ registeredInjectors = <<>>
  /\ onStart = <<>>
  /\ onStop = <<>>
  /\ onShutdown = <<>>
  /\ installing = {}
  /\ stack = <<>>
  /\ calls = <<>>
  /\ refused = <<>>
  /\ runner = 0
  /\ pos = 1
  /\ log = <<>>

\* a fresh controller; analyze has not been called, undot has no input
Init ==
  /\ Constructed
  /\ analysis = NoAnalysis
  /\ config = <<>>
  /\ undotted = NotRun

\* the running call settles
Settle(status, e) ==
  /\ calls' = [calls EXCEPT ![runner].status = status, ![runner].err = e]
  /\ runner' = 0

\* An error leaves the #install recursion: every frame's finally clears its
\* name from #installing, the error reaches the public call, which rejects
\* with it.  Nothing resets #state.
Abort(e) ==
  /\ stack' = <<>>
  /\ installing' = installing \ FrameNames(stack)
  /\ Settle("rejected", Propagate(variant, e, Len(stack)))

\* the top frame goes on as f
Continue(f) ==
  /\ stack' = [stack EXCEPT ![Len(stack)] = f]
  /\ UNCHANGED <<installing, calls, runner>>

\* a public call fails its state check and rejects; nothing else happens
Refuse(op, kind) ==
  /\ Len(refused) < MaxRejected
  /\ refused' = Append(refused, Refused(op, kind))

\* The body of install(name) after its state check, run for call number i:
\* #state = 'installing', then #install(name) up to its first await.
BeginInstall(i, name) ==
  LET entry == InstallEntry(variant, units, installing, name) IN
  /\ state' = "installing"
  /\ runner' = IF entry = "throw" THEN 0 ELSE i
  /\ stack' = IF entry = "enter" THEN <<Frame(name, "import")>> ELSE <<>>
  /\ installing' =
       IF entry = "enter" /\ variant = "units" THEN installing \cup {name} ELSE installing

\* how many units the accepted calls have asked for so far
Requested == Len(SeqConcat([i \in 1..Len(calls) |-> calls[i].arg]))

\* install(name)
CallInstall ==
  /\ IF ~Idle(state)
     THEN /\ Refuse("install", "Busy")
          /\ UNCHANGED <<state, calls, runner, stack, installing>>
     ELSE /\ Requested < MaxInstalls
          /\ refused' = refused
          /\ \E n \in world.roots :
               /\ BeginInstall(Len(calls) + 1, n)
               /\ calls' = Append(calls,
                    IF InstallEntry(variant, units, installing, n) = "throw"
                    THEN Call("install", <<n>>, "rejected", Err("Reentrancy", "", n))
                    ELSE Call("install", <<n>>, "pending", NoErr))
  /\ UNCHANGED <<env, tabs, queues, pos, log>>

\* install(): #install returned, so this.#state = 'idle' and the call
\* resolves.  In start(...names) of the modules variant the awaited install
\* resolves and start goes on in a later turn (StartContinue).
InstallReturn ==
  /\ runner # 0
  /\ state = "installing"
  /\ stack = <<>>
  /\ state' = "idle"
  /\ IF calls[runner].op = "install"
     THEN Settle("resolved", NoErr)
     ELSE calls' = calls /\ runner' = 0
  /\ UNCHANGED <<env, refused, tabs, queues, installing, stack, pos, log>>

\* start(config) / start(...names)
CallStart ==
  /\ IF ~Idle(state)
     THEN /\ Refuse("start", "Busy")
          /\ UNCHANGED <<state, calls, runner, stack, installing, pos>>
     ELSE /\ Count(calls, IsStart) < MaxStarts
          /\ refused' = refused
          /\ \E names \in StartArgs :
               /\ Requested + Len(names) <= MaxInstalls
               /\ calls' = Append(calls, Call("start", names, "pending", NoErr))
               /\ IF names = <<>>
                  THEN /\ state' = "starting"
                       /\ runner' = Len(calls) + 1
                       /\ pos' = 1
                       /\ UNCHANGED <<stack, installing>>
                  ELSE /\ BeginInstall(Len(calls) + 1, Head(names))
                       /\ pos' = pos
  /\ UNCHANGED <<env, tabs, queues, log>>

\* start(...names) after an awaited install(name) resolved: the next name,
\* or the sanity check and the start drain.
StartContinue ==
  /\ variant = "modules"
  /\ \E i \in 1..Len(calls) :
       /\ calls[i].op = "start"
       /\ calls[i].status = "pending"
       /\ runner # i
       /\ IF calls[i].rest # <<>>
          THEN IF ~Idle(state)
               THEN /\ calls' = [calls EXCEPT ![i].status = "rejected",
                                              ![i].err = Err("Busy", "", "")]
                    /\ UNCHANGED <<state, runner, stack, installing, pos>>
               ELSE /\ BeginInstall(i, Head(calls[i].rest))
                    /\ calls' = [calls EXCEPT ![i].rest = Tail(@)]
                    /\ pos' = pos
          ELSE IF ~Idle(state)
               THEN /\ calls' = [calls EXCEPT ![i].status = "rejected",
                                              ![i].err = Err("UnexpectedState", "", state)]
                    /\ UNCHANGED <<state, runner, stack, installing, pos>>
               ELSE /\ state' = "starting"
                    /\ runner' = i
                    /\ pos' = 1
                    /\ UNCHANGED <<calls, stack, installing>>
  /\ UNCHANGED <<env, refused, tabs, queues, log>>

\* for (const fn of this.#onStart) await fn(config); this.#state = 'started'
DrainStart ==
  /\ runner # 0
  /\ state = "starting"
  /\ IF pos <= Len(onStart)
     THEN \E thrown \in BOOLEAN :
            /\ log' = Append(log, Ev("onStart", onStart[pos].unit, onStart[pos].layer, "", NoVal))
            /\ IF thrown
               THEN /\ Settle("rejected", Err("thrown", onStart[pos].unit, "onStart"))
                    /\ UNCHANGED <<state, pos>>
               ELSE /\ pos' = pos + 1
                    /\ UNCHANGED <<state, calls, runner>>
     ELSE /\ state' = "started"
          /\ Settle("resolved", NoErr)
          /\ UNCHANGED <<pos, log>>
  /\ UNCHANGED <<env, refused, tabs, queues, installing, stack>>

\* stop()
CallStop ==
  /\ IF ~Started(state)
     THEN /\ Refuse("stop", "NotStarted")
          /\ UNCHANGED <<state, calls, runner, pos>>
     ELSE /\ calls' = Append(calls, Call("stop", <<>>, "pending", NoErr))
          /\ refused' = refused
          /\ state' = "stopping"
          /\ runner' = Len(calls) + 1
          /\ pos' = 1
  /\ UNCHANGED <<env, tabs, queues, installing, stack, log>>

\* mutant: a throwing stop callback still leaves the controller stopped
DrainStopFinally ==
  /\ runner # 0
  /\ state = "stopping"
  /\ IF pos <= Len(onStop)
     THEN \E thrown \in BOOLEAN :
            /\ log' = Append(log, Ev("onStop", onStop[pos].unit, onStop[pos].layer, "", NoVal))
            /\ IF thrown
               THEN /\ Settle("rejected", Err("thrown", onStop[pos].unit, "onStop"))
                    /\ state' = "stopped"
                    /\ pos' = pos
               ELSE /\ pos' = pos + 1
                    /\ UNCHANGED <<state, calls, runner>>
     ELSE /\ state' = ShutdownState(variant)
          /\ pos' = 1
          /\ UNCHANGED <<calls, runner, log>>
  /\ UNCHANGED <<env, refused, tabs, queues, installing, stack>>

\* for (const fn of this.#onStop) await fn(); this.#state = 'shutdown'
DrainStop ==
  /\ runner # 0
  /\ state = "stopping"
  /\ IF pos <= Len(onStop)
     THEN \E thrown \in BOOLEAN :
            /\ log' = Append(log, Ev("onStop", onStop[pos].unit, onStop[pos].layer, "", NoVal))
            /\ IF thrown
               THEN /\ Settle("rejected", Err("thrown", onStop[pos].unit, "onStop"))
                    /\ UNCHANGED <<state, pos>>
               ELSE /\ pos' = pos + 1
                    /\ UNCHANGED <<state, calls, runner>>
     ELSE /\ state' = ShutdownState(variant)
          /\ pos' = 1
          /\ UNCHANGED <<calls, runner, log>>
  /\ UNCHANGED <<env, refused, tabs, queues, installing, stack>>

\* for (const fn of this.#onShutdown) await fn(); this.#state = 'stopped'
DrainShutdown ==
  /\ runner # 0
  /\ state = ShutdownState(variant)
  /\ IF pos <= Len(onShutdown)
     THEN \E thrown \in BOOLEAN :
            /\ log' = Append(log, Ev("onShutdown", onShutdown[pos].unit, onShutdown[pos].layer, "", NoVal))
            /\ IF thrown
               THEN /\ Settle("rejected", Err("thrown", onShutdown[pos].unit, "onShutdown"))
                    /\ UNCHANGED <<state, pos>>
               ELSE /\ pos' = pos + 1
                    /\ UNCHANGED <<state, calls, runner>>
     ELSE /\ state' = "stopped"
          /\ Settle("resolved", NoErr)
          /\ UNCHANGED <<pos, log>>
  /\ UNCHANGED <<env, refused, tabs, queues, installing, stack>>

\* ------------------------------------------------------------- #install
Top == stack[Len(stack)]
Running(pc) == stack # <<>> /\ Top.pc = pc
UnitOf(f) == world.units[f.name]

\* await unit[hook]?.(): the unit's own hook, if it has one; it may throw
Hook(f, hook, next) ==
  IF hook \in UnitOf(f).cfg.hooks
  THEN \E thrown \in BOOLEAN :
         /\ log' = Append(log, Ev(hook, f.name, 1, "", NoVal))
         /\ IF thrown THEN Abort(Err("thrown", f.name, hook)) ELSE Continue(next)
  ELSE /\ log' = log
       /\ Continue(next)

\* #importUnitWithInfo / resolveModule + importModule.  The units variant
\* rethrows an import failure as `Failed to import unit ...`; the modules
\* variant lets the importer's error reach its catch.
Import ==
  /\ Running("import")
  /\ IF ~UnitOf(Top).exists
     THEN Abort(IF variant = "units" THEN Err("ImportError", "", Top.name)
                ELSE Err("thrown", Top.name, "import"))
     ELSE Continue([Top EXCEPT !.pc = "factory"])
  /\ UNCHANGED <<env, refused, state, tabs, queues, pos, log>>

\* The factory is called; its config is undotted and stored in the table
\* under the unit's name, and only then is its shape validated.
Factory ==
  /\ Running("factory")
  /\ \E thrown \in BOOLEAN :
       /\ log' = Append(log, Ev("factory", Top.name, 1, "", NoVal))
       /\ IF thrown
          THEN /\ Abort(Err("thrown", Top.name, "factory"))
               /\ units' = units
          ELSE /\ units' = [units EXCEPT ![Top.name] = Top.name]
               /\ IF UnitOf(Top).badShape
                  THEN Abort(Err("Validation", Top.name, "config"))
                  ELSE Continue([Top EXCEPT !.pc = "beforeLoad",
                                            !.layers = <<UnitOf(Top).cfg>>])
  /\ UNCHANGED <<env, refused, state, context, registeredLoaders, registeredInjectors, queues, pos>>

\* mutant: onPrepare is invoked where onBeforeLoad belongs
PrepareEarly ==
  /\ Running("beforeLoad")
  /\ Hook(Top, "onPrepare", [Top EXCEPT !.pc = "requires", !.idx = 1])
  /\ UNCHANGED <<env, refused, state, tabs, queues, pos>>

\* await unit.onBeforeLoad?.()
BeforeLoad ==
  /\ Running("beforeLoad")
  /\ Hook(Top, "onBeforeLoad", [Top EXCEPT !.pc = "requires", !.idx = 1])
  /\ UNCHANGED <<env, refused, state, tabs, queues, pos>>

\* mutant: the requires loop is left out
RequiresSkipped ==
  /\ Running("requires")
  /\ Continue([Top EXCEPT !.pc = "provides"])
  /\ UNCHANGED <<env, refused, state, tabs, queues, pos, log>>

\* One turn of the requires loop.  units: a dependency already in the table
\* is skipped, a missing '#' dependency fails, anything else is installed.
\* modules: every dependency goes through #install, which returns at once
\* for a name already in the table.
Requires ==
  /\ Running("requires")
  /\ LET f == Top
         req == UnitOf(f).requires
     IN
     IF f.idx > Len(req)
     THEN Continue([f EXCEPT !.pc = "provides"])
     ELSE LET dep == req[f.idx]
              entry == InstallEntry(variant, units, installing, dep)
              next == [f EXCEPT !.idx = f.idx + 1]
          IN
          IF entry = "return"
          THEN Continue(next)
          ELSE IF variant = "units" /\ StartsWithHash(dep)
          THEN Abort(Err("MissingFeature", f.name, dep))
          ELSE IF entry = "throw"
          THEN Abort(Err("Reentrancy", "", dep))
          ELSE /\ stack' = Append([stack EXCEPT ![Len(stack)] = next], Frame(dep, "import"))
               /\ installing' = IF variant = "units" THEN installing \cup {dep} ELSE installing
               /\ UNCHANGED <<calls, runner>>
  /\ UNCHANGED <<env, refused, state, tabs, queues, pos, log>>

\* the provides / implements loop
Provides ==
  /\ Running("provides")
  /\ LET r == RegisterTags(variant, units, Top.name, UnitOf(Top).provides) IN
     /\ units' = r.tbl
     /\ IF r.err # NoErr THEN Abort(r.err) ELSE Continue([Top EXCEPT !.pc = "prepare"])
  /\ UNCHANGED <<env, refused, state, context, registeredLoaders, registeredInjectors, queues, pos, log>>

\* await unit.onPrepare?.()
Prepare ==
  /\ Running("prepare")
  /\ Hook(Top, "onPrepare",
          IF variant = "units" THEN [Top EXCEPT !.pc = "inject"]
          ELSE [Top EXCEPT !.pc = "define", !.todo = DefineItems(UnitOf(Top).cfg, 1)])
  /\ UNCHANGED <<env, refused, state, tabs, queues, pos>>

\* units: the unit's injectors are registered; the injectors to be called
\* are the registered ones whose key the unit carries a fragment under.
Inject ==
  /\ Running("inject")
  /\ LET r == RegisterInjectors(registeredInjectors, UnitOf(Top).inject, Top.name)
         has(e) == HasFrag(UnitOf(Top).cfg, e.key)
     IN
     /\ registeredInjectors' = r.ri
     /\ IF r.err # NoErr THEN Abort(r.err)
        ELSE Continue([Top EXCEPT !.pc = "injecting", !.todo = SelectSeq(r.ri, has)])
  /\ UNCHANGED <<env, refused, state, units, context, registeredLoaders, queues, pos, log>>

\* units: one injector is awaited and its layer, if any, appended; after the
\* last one the layers' processors are registered and the loader pass is
\* laid out.
Injecting ==
  /\ Running("injecting")
  /\ IF Top.todo = <<>>
     THEN LET rl == RegisterLayers(registeredLoaders, Top.layers, 1, Top.name) IN
          /\ registeredLoaders' = rl
          /\ log' = log
          /\ Continue([Top EXCEPT !.pc = "loaders", !.todo = LoaderWork(rl, Top.layers)])
     ELSE LET e == Head(Top.todo) IN
          \E thrown \in BOOLEAN :
            /\ registeredLoaders' = registeredLoaders
            /\ log' = Append(log, Ev("inject", Top.name, 1, e.key, [unit |-> e.owner, layer |-> 1]))
            /\ IF thrown THEN Abort(Err("thrown", e.owner, e.key))
               ELSE Continue([Top EXCEPT !.todo = Tail(@),
                      !.layers = IF e.out # NoLayer THEN Append(@, e.out) ELSE @])
  /\ UNCHANGED <<env, refused, state, units, context, registeredInjectors, queues, pos>>

\* #addContextProperty(key, spec): the key must be new; a producer is
\* awaited (it may throw); the value is defined, not configurable.
Publish(f, it) ==
  IF Defined(context, it.key)
  THEN /\ Abort(Err("DuplicateContextKey", "", it.key))
       /\ UNCHANGED <<context, log>>
  ELSE \E thrown \in BOOLEAN :
         /\ log' = Append(log, Ev("define", f.name, it.layer, it.key, NoVal))
         /\ IF thrown
            THEN /\ Abort(Err("thrown", f.name, it.key))
                 /\ context' = context
            ELSE /\ context' = [context EXCEPT ![it.key] = [unit |-> f.name, layer |-> it.layer]]
                 /\ Continue([f EXCEPT !.todo = Tail(@)])

\* modules: the define loop, then the module's loaders are registered and
\* the loader pass is laid out.
Define ==
  /\ Running("define")
  /\ IF Top.todo = <<>>
     THEN LET rl == RegisterLayers(registeredLoaders, Top.layers, 1, Top.name) IN
          /\ registeredLoaders' = rl
          /\ Continue([Top EXCEPT !.pc = "loaders", !.todo = LoaderWork(rl, Top.layers)])
          /\ UNCHANGED <<context, log>>
     ELSE /\ Publish(Top, Head(Top.todo))
          /\ registeredLoaders' = registeredLoaders
  /\ UNCHANGED <<env, refused, state, units, registeredInjectors, queues, pos>>

\* One processor of the loader pass: the built-in define loader publishes a
\* key, any other processor is awaited with the fragment (it may throw).
Loaders ==
  /\ Running("loaders")
  /\ IF Top.todo = <<>>
     THEN /\ Continue([Top EXCEPT !.pc = "ready",
                         !.todo = HookSeq(Top.layers, 1, Top.name, "onReady")])
          /\ UNCHANGED <<context, log>>
     ELSE LET it == Head(Top.todo) IN
          IF it.reg = Core
          THEN Publish(Top, it)
          ELSE \E thrown \in BOOLEAN :
                 /\ log' = Append(log, Ev("process", Top.name, it.layer, it.pipe, it.reg))
                 /\ context' = context
                 /\ IF thrown THEN Abort(Err("thrown", it.reg.unit, it.pipe))
                    ELSE Continue([Top EXCEPT !.todo = Tail(@)])
  /\ UNCHANGED <<env, refused, state, units, registeredLoaders, registeredInjectors, queues, pos>>

\* await layer.onReady?.() for every layer; then the layers' run hooks are
\* queued (the log notes which, and that the unit finished installing) and
\* the frame returns (finally: #installing.delete(name)).
Ready ==
  /\ Running("ready")
  /\ IF Top.todo = <<>>
     THEN LET starts == HookSeq(Top.layers, 1, Top.name, "onStart")
              stops == HookSeq(Top.layers, 1, Top.name, "onStop")
              shutdowns == HookSeq(Top.layers, 1, Top.name, "onShutdown")
          IN
          /\ onStart' = Push(onStart, starts)
          /\ onStop' = Push(onStop, stops)
          /\ onShutdown' = Unshift(onShutdown, shutdowns)
          /\ log' = log \o Queued(starts, "onStart") \o Queued(stops, "onStop")
                         \o Queued(shutdowns, "onShutdown")
                         \o <<Ev("installed", Top.name, Len(Top.layers), "", NoVal)>>
          /\ stack' = SubSeq(stack, 1, Len(stack) - 1)
          /\ installing' = installing \ {Top.name}
          /\ UNCHANGED <<calls, runner>>
     ELSE \E thrown \in BOOLEAN :
            /\ log' = Append(log, Ev("onReady", Top.name, Head(Top.todo).layer, "", NoVal))
            /\ IF thrown THEN Abort(Err("thrown", Top.name, "onReady"))
               ELSE Continue([Top EXCEPT !.todo = Tail(@)])
            /\ UNCHANGED queues
  /\ UNCHANGED <<env, refused, state, tabs, pos>>

Next ==
  \/ CallInstall
  \/ InstallReturn
  \/ CallStart
  \/ StartContinue
  \/ DrainStart
  \/ CallStop
  \/ DrainStop
  \/ DrainShutdown
  \/ Import
  \/ Factory
  \/ BeforeLoad
  \/ Requires
  \/ Provides
  \/ Prepare
  \/ Inject
  \/ Injecting
  \/ Define
  \/ Loaders
  \/ Ready

Spec == Init /\ [][Next]_vars

\* ------------------------------------------------------------------ undot
\* isPlain: the prototype is Object.prototype or null
IsPlain(x) == x.t = "obj"
Has(o, k) == \E i \in 1..Len(o.e) : o.e[i].k = k
\* target[k]
Get(o, k) ==
  IF Has(o, k) THEN o.e[CHOOSE i \in 1..Len(o.e) : o.e[i].k = k].val ELSE Undefined
\* target[k] = val: an own key keeps its place, a new one goes last
Put(o, k, val) ==
  IF Has(o, k)
    THEN Obj([i \in 1..Len(o.e) |-> IF o.e[i].k = k THEN Prop(k, val) ELSE o.e[i]])
    ELSE Obj(Append(o.e, Prop(k, val)))

\* the walk of one key: every part but the last steps into target[p], which
\* is replaced by {} first unless it is a plain object; the last part is set
RECURSIVE SetPath(_, _, _)
SetPath(target, parts, val) ==
  IF Len(parts) = 1
    THEN Put(target, parts[1], val)
    ELSE LET p == Head(parts)
             child == IF IsPlain(Get(target, p)) THEN Get(target, p) ELSE Obj(<<>>)
         IN  Put(target, p, SetPath(child, Tail(parts), val))

\* the loop over Object.entries(obj), writing into out
RECURSIVE UndotInto(_, _)
UndotInto(out, entries) ==
  IF entries = <<>> THEN out
  ELSE UndotInto(SetPath(out, Head(entries).parts, Head(entries).val), Tail(entries))

Undot(obj) == UndotInto(Obj(<<>>), obj)

\* the keys and the values the factory results are built from
KeyParts == {<<"a">>, <<"a", "b">>, <<"a", "b", "c">>, <<"a", "x">>, <<"d", "x">>}
Values ==
  {Leaf("v"), Inst("v"), Obj(<<Prop("x", Leaf("w"))>>),
   Obj(<<Prop("b", Obj(<<Prop("c", Leaf("w"))>>))>>)}
\* an object has every key once
Configs ==
  UNION {{c \in [1..n -> {Dotted(k, v) : k \in KeyParts, v \in Values}] :
            \A i, j \in 1..n : c[i].parts = c[j].parts => i = j} : n \in 1..MaxKeys}

\* undot(unitConfig), as #install calls it on what the factory returned
ApplyUndot ==
  /\ undotted = NotRun
  /\ undotted' = Undot(config)
  /\ UNCHANGED <<variant, world, analysis, config, state, tabs, queues,
                 installing, stack, calls, refused, runner, pos, log>>

InitUndot ==
  /\ Constructed
  /\ variant = "units"
  /\ world = WorldDeps
  /\ analysis = NoAnalysis
  /\ config \in Configs
  /\ undotted = NotRun

NextUndot == ApplyUndot

SpecUndot == InitUndot /\ [][NextUndot]_vars

\* ---------------------------------------------------------------- analyze
\* analyze(name) of the install(name) class.  Its result and its two sets
\* are locals of the call; analyzeUnit is cut at its awaits: the import of a
\* unit and the nested analyzeUnit(dep).
AFrame(name, pc, idx) == [name |-> name, pc |-> pc, idx |-> idx]
ATop == analysis.stack[Len(analysis.stack)]
APop(a) == [a EXCEPT !.stack = SubSeq(@, 1, Len(@) - 1)]

\* mutant: the error is pushed and success is left alone
FailSilently(a, kind, unit, key) ==
  [a EXCEPT !.errors = Append(@, Err(kind, unit, key))]
\* result.errors.push(...); result.success = false
Fail(a, kind, unit, key) ==
  [a EXCEPT !.errors = Append(@, Err(kind, unit, key)), !.success = FALSE]

\* mutant: no tag is ever found among the tags collected
NeverHasTag(a, tag) == FALSE
\* result.tags[tag] = unitName, for every tag of info.provides
RECURSIVE SetTags(_, _, _)
SetTags(tags, provides, n) ==
  IF provides = <<>> THEN tags
  ELSE SetTags({t \in tags : t[1] # Head(provides)} \cup {<<Head(provides), n>>},
               Tail(provides), n)
HasTag(a, tag) == \E t \in a.tags : t[1] = tag

\* the entry of analyzeUnit(n): nothing for a unit already visited or under
\* analysis, else the unit is marked and its import awaited
Enter(a, n) ==
  IF n \in a.visited \/ n \in a.installing THEN a
  ELSE [a EXCEPT !.installing = @ \cup {n},
                 !.stack = Append(@, AFrame(n, "import", 0))]

\* the finally block and the return of analyzeUnit; the return of the
\* outermost one is the return of analyze
Leave(a) ==
  LET b == [APop(a) EXCEPT !.installing = @ \ {a.stack[Len(a.stack)].name}]
  IN  IF b.stack = <<>> THEN [b EXCEPT !.status = "done"] ELSE b

\* the loop over info.requires from entry i up to the next await, and what
\* follows the loop
RECURSIVE RunLoop(_, _)
RunLoop(a, i) ==
  LET n == a.stack[Len(a.stack)].name
      req == world.units[n].requires
  IN  IF i > Len(req)
        THEN Leave([a EXCEPT !.units = Append(@, n),
                             !.order = Append(@, n),
                             !.tags = SetTags(@, world.units[n].provides, n),
                             !.visited = @ \cup {n}])
      ELSE IF StartsWithHash(req[i])
        THEN RunLoop(IF HasTag(a, req[i]) THEN a
                     ELSE Fail(a, "MissingTag", n, req[i]), i + 1)
      ELSE IF req[i] \in a.visited
        THEN RunLoop(a, i + 1)
      ELSE Enter([a EXCEPT !.stack[Len(a.stack)] = AFrame(n, "dep", i)], req[i])

\* mutant: the units under analysis are kept in the controller's set
AnalysisStepShared(a) ==
  /\ analysis' = a
  /\ installing' = installing \cup a.installing
  /\ UNCHANGED <<variant, world, config, undotted, state, tabs, queues,
                 stack, calls, refused, runner, pos, log>>
\* a step of analyze writes its locals and nothing else
AnalysisStep(a) ==
  /\ analysis' = a
  /\ UNCHANGED <<variant, world, config, undotted, state, tabs, queues,
                 installing, stack, calls, refused, runner, pos, log>>

\* analyze(name): new locals, then analyzeUnit(name) up to its import
AnalyzeCall ==
  /\ variant = "units"
  /\ analysis.status # "running"
  /\ \E name \in UnitNames :
       AnalysisStep(Enter([NoAnalysis EXCEPT !.status = "running", !.name = name], name))

\* the import of a unit settles: a failure goes to the catch block, else
\* the requires loop starts
AnalyzeImport ==
  /\ analysis.status = "running"
  /\ ATop.pc = "import"
  /\ IF world.units[ATop.name].exists
     THEN AnalysisStep(RunLoop(analysis, 1))
     ELSE AnalysisStep(Leave(Fail(analysis, "AnalyzeFailed", ATop.name, ATop.name)))

\* the awaited analyzeUnit(dep) has returned: the loop goes on
AnalyzeResume ==
  /\ analysis.status = "running"
  /\ ATop.pc = "dep"
  /\ AnalysisStep(RunLoop(analysis, ATop.idx + 1))

InitAnalyze == Init /\ variant = "units"

\* the steps of the install(name) class, with analyze beside them
NextAnalyze ==
  \/ CallInstall
  \/ InstallReturn
  \/ CallStart
  \/ DrainStart
  \/ CallStop
  \/ DrainStop
  \/ DrainShutdown
  \/ Import
  \/ Factory
  \/ BeforeLoad
  \/ Requires
  \/ Provides
  \/ Prepare
  \/ Inject
  \/ Injecting
  \/ Loaders
  \/ Ready
  \/ AnalyzeCall
  \/ AnalyzeImport
  \/ AnalyzeResume

SpecAnalyze == InitAnalyze /\ [][NextAnalyze]_vars

\* ------------------------------------------------------------ properties
\* how often the log holds an event of this kind for this unit
Events(ev, n) == Count(log, LAMBDA e : e.ev = ev /\ e.unit = n)
\* the accepted calls of an operation
CallsOf(op) == {i \in 1..Len(calls) : calls[i].op = op}
\* a call was accepted in this step
Accepted == Len(calls') = Len(calls) + 1
NewCall == calls'[Len(calls')]

Edges ==
  {<<"idle", "installing">>, <<"installing", "idle">>,
   <<"idle", "starting">>, <<"starting", "started">>,
   <<"started", "stopping">>, <<"stopping", ShutdownState(variant)>>,
   <<ShutdownState(variant), "stopped">>}
\* an accepted install() call settles in this step
InstallSettles(i) ==
  /\ i \in CallsOf("install")
  /\ calls[i].status = "pending"
  /\ calls'[i].status # "pending"

\* C3 as stated: the state moves only along the edges, and every accepted
\* install() call ends with the controller back in idle.
C3_Original ==
  [][/\ state' # state => <<state, state'>> \in Edges
     /\ \A i \in 1..Len(calls) : InstallSettles(i) => state' = "idle"
    ]_vars
\* C3 amended: the state moves only along the edges (the state between the
\* two drains of stop is named teardown in the start(...names) variant); an
\* accepted install() call that resolves ends with the controller back in
\* idle, one that rejects leaves it in installing.
C3_StateEdges ==
  [][/\ state' # state => <<state, state'>> \in Edges
     /\ \A i \in 1..Len(calls) :
          InstallSettles(i) =>
            state' = (IF calls'[i].status = "resolved" THEN "idle" ELSE "installing")
    ]_vars
\* an accepted install() call has rejected and the controller is not idle
C3_Witness ==
  \E i \in CallsOf("install") :
    /\ calls[i].status = "rejected"
    /\ state = "installing"

\* the callbacks of the log's events that satisfy P, in log order
Cbs(P(_)) ==
  LET es == SelectSeq(log, P) IN
  [i \in 1..Len(es) |-> [unit |-> es[i].unit, layer |-> es[i].layer]]
\* the callbacks handed to the queue of a hook, in the order they were queued
QueuedOrder(hook) == Cbs(LAMBDA e : e.ev = "queued" /\ e.key = hook)
\* the callbacks of a hook that a drain has invoked, in invocation order
RanOrder(hook) == Cbs(LAMBDA e : e.ev = hook)
Reverse(s) == [i \in 1..Len(s) |-> s[Len(s) + 1 - i]]
IsPrefix(s, t) == Len(s) <= Len(t) /\ SubSeq(t, 1, Len(s)) = s
\* the units in reverse order, each unit's callbacks kept in layer order
RECURSIVE UnitsReversed(_)
UnitsReversed(q) ==
  IF q = <<>> THEN <<>>
  ELSE UnitsReversed(SelectSeq(q, LAMBDA c : c.unit # Head(q).unit))
       \o SelectSeq(q, LAMBDA c : c.unit = Head(q).unit)
\* no stop callback is invoked once a shutdown callback has been
StopsBeforeShutdowns ==
  \A i, j \in 1..Len(log) :
    (log[i].ev = "onShutdown" /\ log[j].ev = "onStop") => j < i
\* what holds of the stop callbacks at every point of stop()
StopOrder ==
  /\ IsPrefix(RanOrder("onStop"), QueuedOrder("onStop"))
  /\ StopsBeforeShutdowns
  /\ RanOrder("onShutdown") # <<>> => RanOrder("onStop") = QueuedOrder("onStop")
  /\ state = "stopped" => RanOrder("onStop") = QueuedOrder("onStop")

\* C4 as stated: stop() invokes the stop callbacks in the order they were
\* queued and then, after the last of them, the shutdown callbacks in the
\* exact reverse of the order they were queued.
C4_Original ==
  /\ StopOrder
  /\ IsPrefix(RanOrder("onShutdown"), Reverse(QueuedOrder("onShutdown")))
  /\ state = "stopped" => RanOrder("onShutdown") = Reverse(QueuedOrder("onShutdown"))
\* C4 amended: stop() invokes the stop callbacks in the order they were
\* queued and then, after the last of them, the shutdown callbacks unit by
\* unit in the reverse of the units' install order; the callbacks of the
\* layers of one unit run in layer order, the order they were queued in.
C4_StopOrder ==
  /\ StopOrder
  /\ IsPrefix(RanOrder("onShutdown"), UnitsReversed(QueuedOrder("onShutdown")))
  /\ state = "stopped" => RanOrder("onShutdown") = UnitsReversed(QueuedOrder("onShutdown"))
\* stop() has resolved after running the shutdown callbacks of several units,
\* one of them with two layers
C4_Witness ==
  /\ state = "stopped"
  /\ Len(RanOrder("onStop")) >= 2
  /\ \E i, j \in 1..Len(RanOrder("onShutdown")) :
       RanOrder("onShutdown")[i].unit # RanOrder("onShutdown")[j].unit
  /\ \E i \in 1..Len(RanOrder("onShutdown")) : RanOrder("onShutdown")[i].layer = 2

\* a stop() call has rejected with what a shutdown callback threw
ShutdownFailed ==
  \E i \in CallsOf("stop") :
    /\ calls[i].status = "rejected"
    /\ calls[i].err.key = "onShutdown"
\* the shutdown callback that threw: the last one invoked
Failing == RanOrder("onShutdown")[Len(RanOrder("onShutdown"))]
\* where a callback stands in a sequence of distinct callbacks
IndexOf(c, s) == CHOOSE i \in 1..Len(s) : s[i] = c
InSeq(c, s) == \E i \in 1..Len(s) : s[i] = c

\* C5 as stated: when a shutdown callback throws, stop() rejects with that
\* error and every shutdown callback queued earlier than the failing one
\* has run by then.
C5_Original ==
  ShutdownFailed =>
    /\ \E i \in CallsOf("stop") :
         calls[i].err = Err("thrown", Failing.unit, "onShutdown")
    /\ \A c \in {QueuedOrder("onShutdown")[k] : k \in 1..Len(QueuedOrder("onShutdown"))} :
         IndexOf(c, QueuedOrder("onShutdown")) < IndexOf(Failing, QueuedOrder("onShutdown"))
           => InSeq(c, RanOrder("onShutdown"))
\* C5 amended: when a shutdown callback throws, stop() rejects with that
\* error and the controller stays in the shutdown state.  The callbacks
\* that have run are those ahead of the failing one in the queue: the ones
\* of units installed after its unit and of earlier layers of its unit.
\* The callbacks of units installed earlier, and of later layers, have not
\* run.
C5_ShutdownThrow ==
  ShutdownFailed =>
    /\ \E i \in CallsOf("stop") :
         calls[i].err = Err("thrown", Failing.unit, "onShutdown")
    /\ state = ShutdownState(variant)
    /\ LET q == UnitsReversed(QueuedOrder("onShutdown")) IN
       /\ InSeq(Failing, q)
       /\ RanOrder("onShutdown") = SubSeq(q, 1, IndexOf(Failing, q))
\* a shutdown callback threw after another had run and before the callbacks
\* of a unit installed earlier were reached
C5_Witness ==
  /\ ShutdownFailed
  /\ Len(RanOrder("onShutdown")) >= 2
  /\ Len(RanOrder("onShutdown")) < Len(QueuedOrder("onShutdown"))

\* C6 as stated: after a failed install neither the failing unit nor a unit
\* further up the recursion is in the table.  Every unit found in the table
\* under its name once the installer has unwound is one whose install ran
\* to its end.
C6_Original ==
  stack = <<>> =>
    \A n \in UnitNames : units[n] = n => Events("installed", n) = 1

\* the calls that ran the installer and rejected with an error of this kind
Rejected(kind) ==
  {i \in 1..Len(calls) : calls[i].status = "rejected" /\ calls[i].err.kind = kind}
\* the calls that rejected with what a unit's factory threw
FactoryFailed == {i \in Rejected("thrown") : calls[i].err.key = "factory"}
\* the units whose factory was invoked and whose install did not finish
Unfinished ==
  {n \in UnitNames : Events("factory", n) = 1 /\ Events("installed", n) = 0}

Deps(n) ==
  IF world.units[n].exists
  THEN {world.units[n].requires[i] : i \in 1..Len(world.units[n].requires)} \cap UnitNames
  ELSE {}
RECURSIVE Reach(_, _)
Reach(S, k) ==
  IF k = 0 THEN S ELSE Reach(S \cup UNION {Deps(m) : m \in S}, k - 1)
\* the unit is on a dependency cycle
OnCycle(n) == n \in Reach(Deps(n), Cardinality(UnitNames))

\* C8 as stated: installing a unit that is on a dependency cycle never
\* succeeds: no install() or start() call naming such a unit resolves.
C8_Original ==
  \A i \in 1..Len(calls) :
    (calls[i].op \in {"install", "start"} /\ calls[i].status = "resolved")
      => \A k \in 1..Len(calls[i].arg) : ~OnCycle(calls[i].arg[k])

\* the built-in define step is about to publish a key the store holds
Republishing ==
  /\ stack # <<>>
  /\ Top.pc \in {"define", "loaders"}
  /\ Top.todo # <<>>
  /\ Head(Top.todo).reg = Core
  /\ context[Head(Top.todo).key] # NoVal

\* C9: when the installer comes to publish a context key that the store
\* already holds, the call rejects with the duplicate-key error for that
\* key, whoever defined the key first; the second definition is not
\* evaluated and the stored value is the one published first: a stored
\* value never changes, and no key is defined twice.
C9_DuplicateContextKey ==
  /\ [](\A k \in CtxKeys :
          Count(log, LAMBDA e : e.ev = "define" /\ e.key = k) <= 1)
  /\ [][/\ \A k \in CtxKeys : context[k] # NoVal => context'[k] = context[k]
        /\ (Republishing /\ stack' # stack) =>
             /\ calls'[runner].status = "rejected"
             /\ [calls'[runner].err EXCEPT !.wraps = 0]
                  = Err("DuplicateContextKey", "", Head(Top.todo).key)
             /\ log' = log
       ]_vars
\* a call rejected for a key that a unit installed earlier had published
C9_Witness ==
  \E i \in Rejected("DuplicateContextKey") :
    /\ context[calls[i].err.key] # NoVal
    /\ Events("installed", context[calls[i].err.key].unit) = 1

\* the calls that rejected because the tag of one unit was taken by another
TagTaken ==
  {i \in Rejected("DuplicateTag") : units[calls[i].err.key] # calls[i].err.unit}
\* an entry of the table, once made, stays
TableKept == \A k \in TableKeys : units[k] # NoUnit => units'[k] = units[k]

ReqSet(n) ==
  IF world.units[n].exists
  THEN {world.units[n].requires[i] : i \in 1..Len(world.units[n].requires)}
  ELSE {}
\* a hook of the unit is invoked in this step
Invoked(hook, n) == Events(hook, n)' > Events(hook, n)

\* C11: when the onReady hook of a unit is invoked, everything the unit
\* requires is in the table, and once an install(A) call has resolved, A
\* and everything A requires are in the table.
C11_RequiresBeforeReady ==
  /\ [][\A n \in UnitNames :
          Invoked("onReady", n) => \A d \in ReqSet(n) : units[d] # NoUnit]_vars
  /\ [](\A i \in CallsOf("install") :
          calls[i].status = "resolved" =>
            /\ units[calls[i].arg[1]] # NoUnit
            /\ \A d \in ReqSet(calls[i].arg[1]) : units[d] # NoUnit)
\* install(A) has resolved for a unit A that requires another unit and has
\* an onReady hook, which ran
C11_Witness ==
  \E i \in CallsOf("install") :
    /\ calls[i].status = "resolved"
    /\ ReqSet(calls[i].arg[1]) \cap UnitNames # {}
    /\ Events("onReady", calls[i].arg[1]) = 1

\* the requires loop of the running install is at a tag reference that has
\* no owner
TagPending ==
  /\ stack # <<>>
  /\ Top.pc = "requires"
  /\ Top.idx <= Len(UnitOf(Top).requires)
  /\ UnitOf(Top).requires[Top.idx] \in {"#t", "#u"}
  /\ units[UnitOf(Top).requires[Top.idx]] = NoUnit
PendingTag == UnitOf(Top).requires[Top.idx]
\* the install fails with the missing-feature error of the requiring unit
\* and nothing is installed for the tag
FailsMissing ==
  /\ stack' = <<>>
  /\ calls'[runner].status = "rejected"
  /\ [calls'[runner].err EXCEPT !.wraps = 0] = Err("MissingFeature", Top.name, PendingTag)
  /\ UNCHANGED <<tabs, queues, log>>
\* the tag reference is installed by name: #install is entered for it
InstalledByName ==
  /\ Len(stack') = Len(stack) + 1
  /\ stack'[Len(stack')] = Frame(PendingTag, "import")
  /\ calls'[runner].status = "pending"

\* C12 as stated: when the requires loop reaches a tag reference without an
\* owner, the install fails with the missing-feature error of the requiring
\* unit and no unit of that name is imported or installed.
C12_Original ==
  [][(TagPending /\ stack' # stack) => FailsMissing]_vars
\* C12 amended: in the variant with info.requires / info.provides, a tag
\* reference without an owner fails the install with the missing-feature
\* error of the requiring unit and nothing is imported for it.  In the
\* variant with start(...names) there is no such check: the reference goes
\* to #install like any other name and a unit of that name is imported.
C12_MissingFeature ==
  [][(TagPending /\ stack' # stack) =>
       IF variant = "units" THEN FailsMissing ELSE InstalledByName]_vars
\* an install failed for a tag nobody owned, and no unit named like the tag
\* was touched
C12_Witness ==
  \E i \in Rejected("MissingFeature") :
    /\ units[calls[i].err.key] = NoUnit
    /\ Events("factory", calls[i].err.key) = 0
    /\ world.units[calls[i].err.key].exists

\* the importer knows a unit named like the tag that declares the tag
Satisfier(t) ==
  /\ t \in UnitNames
  /\ world.units[t].exists
  /\ \E k \in 1..Len(world.units[t].provides) : world.units[t].provides[k] = t

\* C13 as stated: when a unit requires a tag without an owner and the
\* importer knows a unit named like the tag that declares it, that unit is
\* installed by name and its install does not fail on the tag it declares,
\* so the tag resolves to it.
C13_Original ==
  /\ [][(TagPending /\ Satisfier(PendingTag) /\ stack' # stack) => InstalledByName]_vars
  /\ [](\A i \in Rejected("DuplicateTag") : calls[i].err.unit # calls[i].err.key)

\* C14 as stated: once a start() and a stop() have both completed (the
\* controller is stopped), a further stop() call is not rejected.
C14_Original ==
  [][(state = "stopped" /\ refused' # refused)
       => refused'[Len(refused')].op # "stop"]_vars

\* the start(...names) calls that name one unit twice, a unit that defines
\* a context key
TwiceNamed ==
  {i \in CallsOf("start") :
     /\ Len(calls[i].arg) = 2
     /\ calls[i].arg[1] = calls[i].arg[2]
     /\ world.units[calls[i].arg[1]].exists
     /\ world.units[calls[i].arg[1]].cfg.define # <<>>}
\* start(...names) turns to its next name in this step, a name that is in
\* the table
NextNameInstalled(i) ==
  /\ calls[i].op = "start"
  /\ calls[i].rest # <<>>
  /\ calls'[i].rest = Tail(calls[i].rest)
  /\ units[Head(calls[i].rest)] # NoUnit

PendingStart == \E i \in CallsOf("start") : calls[i].status = "pending"

\* C16 as stated: in the variant with start(...names), from the moment a
\* start call has passed its idle check until it settles no other install()
\* or start() call is accepted, and the start call itself never rejects
\* because of another caller (with the busy or the unexpected-state error).
C16_Original ==
  /\ [][(variant = "modules" /\ PendingStart)
          => ~(Accepted /\ NewCall.op \in {"install", "start"})]_vars
  /\ [](variant = "modules" =>
          \A i \in CallsOf("start") :
            calls[i].err.kind \notin {"Busy", "UnexpectedState"})

\* the members under a value: every path that ends in something other than
\* a plain object with keys, with what it ends in
RECURSIVE Leaves(_, _)
Leaves(path, x) ==
  IF IsPlain(x) /\ x.e # <<>>
    THEN UNION {Leaves(Append(path, x.e[i].k), x.e[i].val) : i \in 1..Len(x.e)}
    ELSE {<<path, x>>}
\* the members of an expanded record
Members(o) == UNION {Leaves(<<o.e[i].k>>, o.e[i].val) : i \in 1..Len(o.e)}
\* the members a factory result declares, dotted or nested
Declared(cfg) == UNION {Leaves(cfg[i].parts, cfg[i].val) : i \in 1..Len(cfg)}
\* no two declarations are about the same member or about a member and
\* something inside it, so one nested object declares exactly the same
ConflictFree(cfg) ==
  \A l, m \in Declared(cfg) : IsPrefix(l[1], m[1]) => l = m

\* C17: dotted-key expansion is equivalent to nesting.  A unit record
\* expanded from a factory result holds exactly the members that result
\* declares, whether a member was declared under a dotted key or inside a
\* nested object.
C17_Original ==
  (undotted # NotRun /\ ConflictFree(config)) => Members(undotted) = Declared(config)

\* a step of analyze
Analyzing == analysis' # analysis

\* C18: analyze has no side effects.  Whatever the controller is doing and
\* whatever the unit graph, a step of analyze leaves the units table with
\* its tag entries, the context, the injector and loader registries, the
\* three queues, the set of units being installed and the controller state
\* as they were, and invokes no factory and no hook.
C18_AnalyzeFrame ==
  [][Analyzing => UNCHANGED <<units, context, registeredInjectors, registeredLoaders,
                              onStart, onStop, onShutdown, installing, state, log>>]_vars
\* an analysis that met an error has returned while an install was under
\* way, after units were installed and callbacks ran
C18_Witness ==
  /\ analysis.status = "done"
  /\ analysis.errors # <<>>
  /\ stack # <<>>
  /\ installing # {}
  /\ log # <<>>

\* C19: from the call of analyze to its return, success is false exactly
\* when the errors list is not empty.
C19_SuccessIffNoErrors ==
  analysis.status # "idle" => (analysis.success = FALSE <=> analysis.errors # <<>>)
\* a traversal under way that has recorded a missing tag, and a returned
\* one that recorded a failed import
C19_Witness ==
  \/ /\ analysis.status = "running"
     /\ \E i \in 1..Len(analysis.errors) : analysis.errors[i].kind = "MissingTag"
     /\ ~analysis.success
  \/ /\ analysis.status = "done"
     /\ \E i \in 1..Len(analysis.errors) : analysis.errors[i].kind = "AnalyzeFailed"
     /\ ~analysis.success

\* the stations of a unit's life, in the order the claim gives them
PhaseOf(e) ==
  CASE e.ev = "factory" -> 0
    [] e.ev = "onBeforeLoad" -> 1
    [] e.ev = "onPrepare" -> 2
    [] e.ev = "inject" -> 3
    [] e.ev \in {"define", "process"} -> 4
    [] e.ev = "onReady" -> 5
    [] e.ev \in {"queued", "installed"} -> 6
    [] e.ev = "onStart" -> 7
    [] e.ev = "onStop" -> 8
    [] e.ev = "onShutdown" -> 9
\* every tag the unit declares is registered to it, everything it requires
\* is in the table
TagsRegistered(n) ==
  \A i \in 1..Len(world.units[n].provides) : units[world.units[n].provides[i]] = n
RequiresPresent(n) == \A d \in ReqSet(n) : units[d] # NoUnit
\* the log holds an event of this kind for this unit
Seen(ev, n) == \E i \in 1..Len(log) : log[i].ev = ev /\ log[i].unit = n
\* what a step finds when it invokes a callback (the log grows by it)
HookStep ==
  \A k \in (Len(log) + 1)..Len(log') :
    LET e == log'[k]
        n == e.unit
    IN  /\ \A i \in 1..(k - 1) : log'[i].unit = n => PhaseOf(log'[i]) <= PhaseOf(e)
        /\ PhaseOf(e) <= 6 => stack # <<>> /\ Top.name = n
        /\ PhaseOf(e) \in 2..6 => TagsRegistered(n) /\ RequiresPresent(n)
        /\ e.ev = "onStart" =>
             /\ state = "starting" /\ calls[runner].op = "start"
             /\ Seen("installed", n)
        /\ e.ev = "onStop" =>
             /\ state = "stopping" /\ calls[runner].op = "stop"
             /\ \A i \in 1..Len(log) : log[i].ev # "onShutdown"
        /\ e.ev = "onShutdown" =>
             state = ShutdownState(variant) /\ calls[runner].op = "stop"
\* what the step that registers the tags of a unit finds
TagStep ==
  (Running("provides") /\ stack' # stack) =>
    LET n == Top.name IN
    /\ RequiresPresent(n)
    /\ "onBeforeLoad" \in world.units[n].cfg.hooks => Seen("onBeforeLoad", n)
    /\ \A i \in 1..Len(log) : log[i].unit = n => PhaseOf(log[i]) <= 1

\* C20: the hooks of a unit run in a fixed order.  During install:
\* onBeforeLoad, the installs its requires loop makes, the registration of
\* its tags, onPrepare, the publication of its define entries and the
\* pipeline processing, onReady.  Start callbacks run only in start(), stop
\* callbacks and after them shutdown or teardown callbacks only in stop(),
\* and no start callback of a unit runs before the unit's install, with
\* every onReady of the unit, has run to its end.
C20_HookOrder == [][HookStep /\ TagStep]_vars
\* a unit with every hook, and with requires, has been through all of them;
\* a unit that provides a tag has been installed, its hooks invoked
C20_Witness ==
  \/ /\ state = "stopped"
     /\ \E n \in UnitNames :
          /\ world.units[n].cfg.hooks = AllHooks
          /\ ReqSet(n) # {}
          /\ \A h \in AllHooks : Events(h, n) = 1
  \/ \E n \in UnitNames :
       /\ world.units[n].exists
       /\ world.units[n].provides # <<>>
       /\ InstallHooks \cap world.units[n].cfg.hooks = {"onBeforeLoad", "onPrepare"}
       /\ Events("onBeforeLoad", n) = 1
       /\ Events("onPrepare", n) = 1
       /\ Events("installed", n) = 1

\* the positions in the log of the events of a kind for a unit
At(ev, n) == {i \in 1..Len(log) : log[i].ev = ev /\ log[i].unit = n}
\* the pipeline names units register processors for
Pipes == {"p", "q"}
\* the units that have registered a processor for a pipeline
Registrants(P) ==
  UNION {{registeredLoaders[k].procs[i].unit : i \in 1..Len(registeredLoaders[k].procs)} :
           k \in {x \in 1..Len(registeredLoaders) : registeredLoaders[x].key = P}}
\* U carries a fragment under P and finished installing before the factory
\* of any unit that registers a processor for P was called
InstalledBeforeProcessors(U, P) ==
  /\ world.units[U].exists
  /\ HasFrag(world.units[U].cfg, P)
  /\ At("installed", U) # {}
  /\ \A V \in Registrants(P) :
       \A i \in At("installed", U), j \in At("factory", V) : i < j
\* the processor a unit registered for P was invoked on U's fragment
ProcessedBy(U, P, V) ==
  \E i \in At("process", U) : log[i].key = P /\ log[i].by.unit = V

\* C21: pipeline processing reaches units that are already installed.  If
\* U carries a fragment under P and was installed before any processor for
\* P existed, then once a later unit has registered a processor for P and
\* finished installing, U's fragment has been run through that processor.
C21_Original ==
  \A U \in UnitNames, P \in Pipes :
    InstalledBeforeProcessors(U, P) =>
      \A V \in Registrants(P) : At("installed", V) # {} => ProcessedBy(U, P, V)

\* a published key keeps the value it was published with
ContextKept == \A k \in CtxKeys : context[k] # NoVal => context'[k] = context[k]

\* C22: the context store is append-only.  No step of install, start or
\* stop, succeeding or failing, removes a published key or gives it another
\* value.
C22_ContextAppendOnly == [][ContextKept]_vars
\* keys were published by two units and a later install that came to
\* publish one of them again was rejected
C22_Witness ==
  /\ \E j, k \in CtxKeys : /\ context[j] # NoVal /\ context[k] # NoVal
                            /\ context[j].unit # context[k].unit
  /\ Rejected("DuplicateContextKey") # {}

\* the keys of the table that are feature tags
Tags == {k \in TableKeys : MatchesTag(k)}

\* C23: tag ownership is immutable.  Once the table maps a tag to a unit,
\* no step, of an install that succeeds or of one that fails, maps it to
\* another unit or to none.
C23_TagOwnership ==
  [][\A t \in Tags : units[t] # NoUnit => units'[t] = units[t]]_vars
\* a tag has an owner of another name, a unit named like the tag was asked
\* for afterwards and its factory was never called, or a second unit that
\* declares the tag was rejected
C23_Witness ==
  \E t \in Tags :
    /\ units[t] \notin {NoUnit, t}
    /\ \/ /\ t \in UnitNames
          /\ \E i \in 1..Len(calls) : /\ calls[i].status = "resolved"
                                       /\ InSeq(t, calls[i].arg)
          /\ Events("factory", t) = 0
       \/ \E i \in Rejected("DuplicateTag") : calls[i].err.key = t

\* the stop() calls that rejected with what a queued callback threw
StopFailed ==
  {i \in CallsOf("stop") : calls[i].status = "rejected" /\ calls[i].err.kind = "thrown"}
\* the callbacks of the two queues in the order stop() drains them, and
\* the ones invoked so far
DrainOrder == onStop \o onShutdown
Drained == RanOrder("onStop") \o RanOrder("onShutdown")

\* C24: an error thrown by a queued stop or teardown callback aborts the
\* drain.  stop() rejects with that error; the callbacks invoked are exactly
\* those up to the failing one in drain order, each once; a failing stop
\* callback means no teardown callback has run; and from then on no further
\* callback of the two queues is invoked and the controller does not become
\* stopped.
C24_DrainAborts ==
  /\ [](\A i \in StopFailed :
          /\ Drained # <<>>
          /\ IsPrefix(Drained, DrainOrder)
          /\ calls[i].err =
               Err("thrown", Drained[Len(Drained)].unit,
                   IF Len(Drained) <= Len(onStop) THEN "onStop" ELSE "onShutdown")
          /\ calls[i].err.key = "onStop" => RanOrder("onShutdown") = <<>>
          /\ state # "stopped")
  /\ [][StopFailed # {} =>
         /\ state' = state
         /\ RanOrder("onStop")' = RanOrder("onStop")
         /\ RanOrder("onShutdown")' = RanOrder("onShutdown")]_vars
\* a stop callback threw with a later stop callback and teardown callbacks
\* in the queues, and stop() was called again
C24_Witness ==
  /\ \E i \in StopFailed : calls[i].err.key = "onStop"
  /\ Len(RanOrder("onStop")) < Len(onStop)
  /\ onShutdown # <<>>
  /\ \E j \in 1..Len(refused) : refused[j].op = "stop"

\* the processors registered for a pipeline, in registration order
ProcsOf(P) ==
  SeqConcat([k \in 1..Len(registeredLoaders) |->
    IF registeredLoaders[k].key = P THEN registeredLoaders[k].procs ELSE <<>>])
\* the processors invoked on the fragment a layer of a unit carries under
\* a pipeline, in invocation order
RanOn(U, li, P) ==
  LET es == SelectSeq(log, LAMBDA e : /\ e.ev = "process" /\ e.unit = U
                                      /\ e.layer = li /\ e.key = P)
  IN  [i \in 1..Len(es) |-> es[i].by]
\* the units that finished installing, in that order
InstallOrder ==
  LET es == SelectSeq(log, LAMBDA e : e.ev = "installed")
  IN  [i \in 1..Len(es) |-> es[i].unit]

\* C25: when the loader pass of a unit is over, the fragment each of its
\* layers carries under a pipeline has been run once through every
\* processor registered for the pipeline so far, by earlier units and by
\* the unit itself, in registration order; and the processor a unit
\* declares for a pipeline is added to the processors already registered
\* for it, which stay.
C25_PipelineOrder ==
  /\ Running("ready") =>
       \A li \in 1..Len(Top.layers), P \in Pipes :
         HasFrag(Top.layers[li], P) => RanOn(Top.name, li, P) = ProcsOf(P)
  /\ \A i \in 1..Len(InstallOrder), P \in Pipes :
       InSeq(P, world.units[InstallOrder[i]].cfg.register) =>
         /\ InSeq([unit |-> InstallOrder[i], layer |-> 1], ProcsOf(P))
         /\ \A j \in 1..(i - 1) :
              InSeq(P, world.units[InstallOrder[j]].cfg.register) =>
                IndexOf([unit |-> InstallOrder[j], layer |-> 1], ProcsOf(P))
                  < IndexOf([unit |-> InstallOrder[i], layer |-> 1], ProcsOf(P))
\* a unit finished installing after its fragment went through the
\* processors of two units, one of them its own
C25_Witness ==
  \E i \in 1..Len(InstallOrder), P \in Pipes :
    LET ran == RanOn(InstallOrder[i], 1, P) IN
    /\ Len(ran) >= 2
    /\ ran[1].unit # InstallOrder[i]
    /\ ran[Len(ran)].unit = InstallOrder[i]

\* The depth-first post-order of the requires graph: a unit is visited
\* once, its requires in declared order before it; a tag reference is not a
\* unit of the graph.
RECURSIVE Visit(_, _)
RECURSIVE VisitAll(_, _)
Visit(n, acc) ==
  IF n \in acc.seen THEN acc
  ELSE LET below == VisitAll(IF world.units[n].exists THEN world.units[n].requires ELSE <<>>,
                             [acc EXCEPT !.seen = @ \cup {n}])
       IN  [below EXCEPT !.order = Append(@, n)]
VisitAll(deps, acc) ==
  IF deps = <<>> THEN acc
  ELSE VisitAll(Tail(deps), IF StartsWithHash(Head(deps)) THEN acc
                            ELSE Visit(Head(deps), acc))
PostOrder(n) == Visit(n, [seen |-> {}, order |-> <<>>]).order

\* the units of a queue's callbacks, a unit with several layers once
RECURSIVE UnitsOf(_)
UnitsOf(q) ==
  IF q = <<>> THEN <<>>
  ELSE LET rest == UnitsOf(Tail(q)) IN
       IF rest # <<>> /\ Head(rest) = Head(q).unit THEN rest ELSE <<Head(q).unit>> \o rest
\* the units of a sequence that have a callback in a queue
Having(order, q) ==
  SelectSeq(order, LAMBDA n : \E i \in 1..Len(q) : q[i].unit = n)
\* the first call on the instance asks for one unit and is the only call
FirstCall ==
  /\ Len(calls) = 1
  /\ Len(calls[1].arg) = 1

\* C26: install order is deterministic.  On a fresh instance the units
\* asked for by one call finish installing in the depth-first post-order of
\* the requires graph from the requested unit (all of it once the call has
\* resolved, a beginning of it before and when something fails), and the
\* start and stop queues hold the callbacks of those units in that order.
C26_InstallOrder ==
  FirstCall =>
    /\ IsPrefix(InstallOrder, PostOrder(calls[1].arg[1]))
    /\ calls[1].status = "resolved" => InstallOrder = PostOrder(calls[1].arg[1])
    /\ UnitsOf(onStart) = Having(InstallOrder, onStart)
    /\ UnitsOf(onStop) = Having(InstallOrder, onStop)
\* a unit with two requires, one of which requires the other, was installed
\* with all its dependencies; two units have start callbacks queued
C26_Witness ==
  /\ FirstCall
  /\ calls[1].status = "resolved"
  /\ Len(InstallOrder) = 3
  /\ Len(world.units[calls[1].arg[1]].requires) = 2
  /\ Len(UnitsOf(onStart)) >= 2

\* the install of a unit has run to its end
Finished(n) == At("installed", n) # {}
\* the units a unit requires: by name, or as the owner of a required tag
RequiredUnits(n) ==
  {IF StartsWithHash(d) THEN units[d] ELSE d : d \in ReqSet(n)} \ {NoUnit}

\* C27: each dependency is installed to completion before its dependant
\* proceeds.  Whenever the onPrepare hook of a unit is invoked, every unit
\* it requires has finished its whole install: its define entries are
\* published, its onReady has returned, its callbacks are queued.
C27_Original ==
  [][\A n \in UnitNames :
       Invoked("onPrepare", n) => \A d \in RequiredUnits(n) : Finished(d)]_vars

\* the start() calls that rejected with what a start callback threw
StartFailed ==
  {i \in CallsOf("start") : /\ calls[i].status = "rejected"
                            /\ calls[i].err.kind = "thrown"
                            /\ calls[i].err.key = "onStart"}

\* C28: if a queued start callback throws, start() rejects with that
\* error, the start callbacks invoked are those up to the failing one in
\* queue order, the controller stays short of started, and from then on
\* every stop() is refused with the not-started error and no start, stop or
\* teardown callback is invoked.
C28_StartThrow ==
  /\ [](\A i \in StartFailed :
          /\ RanOrder("onStart") # <<>>
          /\ IsPrefix(RanOrder("onStart"), onStart)
          /\ calls[i].err =
               Err("thrown", RanOrder("onStart")[Len(RanOrder("onStart"))].unit, "onStart")
          /\ state = "starting"
          /\ RanOrder("onStop") = <<>>
          /\ RanOrder("onShutdown") = <<>>)
  /\ [][StartFailed # {} =>
         /\ UNCHANGED <<state, log>>
         /\ ~(Accepted /\ NewCall.op = "stop")
         /\ \A j \in (Len(refused) + 1)..Len(refused') :
              refused'[j].op = "stop" => refused'[j].err.kind = "NotStarted"]_vars
\* a start callback threw before a later one was reached, stop callbacks
\* and teardown callbacks are queued, and the stop() that followed was
\* refused
C28_Witness ==
  /\ StartFailed # {}
  /\ Len(RanOrder("onStart")) < Len(onStart)
  /\ onStop # <<>>
  /\ onShutdown # <<>>
  /\ \E j \in 1..Len(refused) : refused[j].op = "stop"

\* On a fresh instance install(name) was the only call and has settled,
\* no factory, hook or processor threw, and analyze(name) has returned.
Mirrored ==
  /\ FirstCall
  /\ calls[1].op = "install"
  /\ calls[1].status # "pending"
  /\ calls[1].err.kind # "thrown"
  /\ analysis.status = "done"
  /\ analysis.name = calls[1].arg[1]
\* the tags the provides loop has given an owner
TagOwners == {<<t, units[t]>> : t \in {x \in Tags : units[x] \notin {NoUnit, x}}}
\* the analyzer's order and tags are the installer's
SameWalk ==
  /\ analysis.order = InstallOrder
  /\ analysis.tags = TagOwners

Rejecting ==
  \E i \in 1..Len(calls) : calls[i].status = "pending" /\ calls'[i].status = "rejected"
\* where a tag stands in the provides list of a unit
TagsBefore(n, tag) ==
  LET prov == world.units[n].provides
  IN  {prov[j] : j \in {x \in 1..Len(prov) : \A y \in 1..x : prov[y] # tag}}

\* C30: a failing install is not rolled back.  The step in which an install
\* rejects leaves every tag registered and every context key published up
\* to then as it was, those of the failing unit and those of dependencies
\* that finished before it; and when the provides loop of a unit fails at a
\* tag, the tags it registered before that one stay registered to the unit.
C30_NoRollback ==
  /\ [][Rejecting =>
         /\ \A t \in Tags : units[t] # NoUnit => units'[t] = units[t]
         /\ \A k \in CtxKeys : context[k] # NoVal => context'[k] = context[k]]_vars
  /\ [](\A i \in Rejected("InvalidTag") :
          \A t \in TagsBefore(calls[i].err.unit, calls[i].err.key) :
            units[t] = calls[i].err.unit)
\* an install was rejected at a duplicate context key after the failing
\* unit had published another key and a dependency had registered a tag;
\* or at a malformed tag after the unit had registered another tag
C30_Witness ==
  \/ /\ Rejected("DuplicateContextKey") # {}
     /\ \E k \in CtxKeys : context[k] # NoVal /\ context[k].unit \in Unfinished
     /\ \E t \in Tags : units[t] \notin {NoUnit, t} /\ Finished(units[t])
  \/ \E i \in Rejected("InvalidTag") :
       \E t \in TagsBefore(calls[i].err.unit, calls[i].err.key) :
         units[t] = calls[i].err.unit


\* ---- a failed install ------------------------------------------------

\* the install(name) calls whose installation failed
FailedInstalls ==
  {i \in 1..Len(calls) : calls[i].op = "install" /\ calls[i].status = "rejected"}

\* the kind of error the state check of a public call gives
StateCheckKind(op) == IF op = "stop" THEN "NotStarted" ELSE "Busy"

\* every call refused in this step fails its state check with the kind of
\* its operation
RefusedByStateCheck ==
  /\ \A i \in 1..Len(refused) : refused'[i] = refused[i]
  /\ \A i \in (Len(refused) + 1)..Len(refused') :
       refused'[i].err.kind = StateCheckKind(refused'[i].op)

\* a step after a failed install: the state stays 'installing', no call is
\* accepted, a start(...names) already under way rejects, and nothing runs
Wedged ==
  FailedInstalls # {} =>
    /\ state' = "installing"
    /\ Len(calls') = Len(calls)
    /\ \A i \in 1..Len(calls) :
         calls'[i] # calls[i] =>
           /\ calls'[i].status = "rejected"
           /\ calls'[i].err.kind \in {"Busy", "UnexpectedState"}
    /\ Len(refused') >= Len(refused)
    /\ RefusedByStateCheck
    /\ log' = log
    /\ UNCHANGED <<tabs, queues, pos>>

\* C31: once the installation started by install(name) has failed, the state
\* is 'installing' and stays so: every later install() and start() is
\* rejected as busy, every later stop() as not started, and no queued start,
\* stop or teardown callback (nor any other callback) is invoked.
C31_FailedInstallWedges ==
  /\ [](FailedInstalls # {} => state = "installing")
  /\ [][Wedged]_vars

\* an install failed with start callbacks queued, and a later public call
\* was rejected by the state check
C31_Witness ==
  /\ FailedInstalls # {}
  /\ onStart # <<>>
  /\ refused # <<>>
  /\ \E i \in FailedInstalls : \A j \in 1..Len(calls) : j <= i


\* ---- the reentrancy guard -------------------------------------------

\* the errors raised so far, by the installer into a call or by analyze
Raised ==
  {calls[i].err : i \in 1..Len(calls)}
    \cup {refused[i].err : i \in 1..Len(refused)}
    \cup {analysis.errors[i] : i \in 1..Len(analysis.errors)}

\* #installing holds exactly the names under installation, each once, and
\* every one of them but the innermost is already in the units table
GuardedByTable ==
  /\ installing = FrameNames(stack)
  /\ \A i, j \in 1..Len(stack) : stack[i].name = stack[j].name => i = j
  /\ \A i \in 1..Len(stack) :
       (i < Len(stack) \/ stack[i].pc \notin {"import", "factory"})
         => units[stack[i].name] # NoUnit
  /\ stack # <<>> => state = "installing"

InQueue(q) == [i \in 1..Len(q) |-> [unit |-> q[i].unit, layer |-> q[i].layer]]
NoRepeat(s) == \A i, j \in 1..Len(s) : s[i] = s[j] => i = j
\* the callbacks of a hook invoked so far are queued ones, each invoked once
OnceEach(hook, q) ==
  /\ NoRepeat(InQueue(q))
  /\ NoRepeat(RanOrder(hook))
  /\ \A i \in 1..Len(RanOrder(hook)) : InSeq(RanOrder(hook)[i], InQueue(q))
\* every queued start callback has been invoked and has returned
StartsCompleted ==
  /\ \A i \in 1..Len(onStart) : InSeq(InQueue(onStart)[i], RanOrder("onStart"))
  /\ \E i \in CallsOf("start") : calls[i].status = "resolved"
  /\ \A i \in CallsOf("start") :
       calls[i].status = "rejected" => calls[i].err.key # "onStart"

\* C33: over any sequence of public calls each queued onStart callback is
\* invoked at most once, each queued onStop and onShutdown callback at most
\* once, and an onStop or onShutdown callback is invoked only when every
\* queued onStart callback has been invoked and has returned.
C33_CallbacksOnce ==
  /\ OnceEach("onStart", onStart)
  /\ OnceEach("onStop", onStop)
  /\ OnceEach("onShutdown", onShutdown)
  /\ (RanOrder("onStop") # <<>> \/ RanOrder("onShutdown") # <<>>) => StartsCompleted

\* stop() has drained both queues after two start callbacks, and a further
\* start or stop was made
C33_Witness ==
  /\ Len(onStart) >= 2
  /\ RanOrder("onStop") # <<>>
  /\ RanOrder("onShutdown") = InQueue(onShutdown)
  /\ state = "stopped"
  /\ \E i \in 1..Len(refused) : refused[i].op \in {"start", "stop"}


\* ---- after start, after stop ----------------------------------------

\* a step in which the installer does something: a call is accepted for
\* installation, or the #install recursion moves or publishes
Installs ==
  \/ stack' # stack
  \/ installing' # installing
  \/ units' # units
  \/ context' # context
  \/ registeredLoaders' # registeredLoaders
  \/ registeredInjectors' # registeredInjectors
  \/ queues' # queues
  \/ Accepted /\ NewCall.op = "install"

\* the drain of start has begun: the state has left 'idle' and 'installing'
Starting == state \notin {"idle", "installing"}

Terminal ==
  state = "stopped" =>
    /\ state' = "stopped"
    /\ Len(calls') = Len(calls)
    /\ \A i \in 1..Len(calls) : calls'[i] # calls[i] => calls'[i].status = "rejected"
    /\ RefusedByStateCheck
    /\ log' = log
    /\ UNCHANGED <<tabs, queues, stack, installing>>

FinishedAt(n) == CHOOSE i \in 1..Len(log) : log[i].ev = "installed" /\ log[i].unit = n
\* callback c is torn down before callback d: a later layer of the same
\* unit, or a unit that finished installing earlier
TornDownBefore(c, d) ==
  IF c.unit = d.unit THEN c.layer < d.layer
  ELSE FinishedAt(c.unit) > FinishedAt(d.unit)
\* the teardown callbacks queued in this step go to the head of the queue as
\* one block, all of the unit that finishes installing, in layer order
HeadBlock ==
  onShutdown' # onShutdown =>
    \E k \in 1..Len(onShutdown') :
      /\ onShutdown' = SubSeq(onShutdown', 1, k) \o onShutdown
      /\ \A i \in 1..k :
           /\ onShutdown'[i].unit = Top.name
           /\ \A j \in 1..k : i < j => onShutdown'[i].layer < onShutdown'[j].layer
\* the teardown callback invoked in this step comes after every queued one
\* that is torn down before it, and before every other one
TeardownStep ==
  (Len(log') = Len(log) + 1 /\ log'[Len(log')].ev = "onShutdown") =>
    LET e == log'[Len(log')]
        d == [unit |-> e.unit, layer |-> e.layer]
    IN
    /\ InSeq(d, InQueue(onShutdown))
    /\ \A i \in 1..Len(onShutdown) :
         LET c == InQueue(onShutdown)[i] IN
         c # d => (InSeq(c, RanOrder("onShutdown")) <=> TornDownBefore(c, d))

\* C35: the onShutdown callbacks of the layers L1..Lk that installing one
\* unit produces (the unit and its injected layers) go to the head of the
\* teardown queue as one block in layer order, so stop() runs them L1 first
\* to Lk last, all of them before the teardown callbacks of every unit that
\* finished installing earlier.
C35_LayerBlock == [][HeadBlock /\ TeardownStep]_vars

\* stop() has run both teardown callbacks of a unit with an injected layer,
\* first layer first, and then the one of a unit installed before it
C35_Witness ==
  \E u, v \in UnitNames :
    /\ u # v
    /\ Len(RanOrder("onShutdown")) >= 3
    /\ SubSeq(RanOrder("onShutdown"), 1, 3)
         = << [unit |-> u, layer |-> 1], [unit |-> u, layer |-> 2], [unit |-> v, layer |-> 1] >>
    /\ FinishedAt(v) < FinishedAt(u)

====
